---------------------------- MODULE Spec2Model ----------------------------
(***************************************************************************)
(* Model of crates/oxc_semantic/src/jsdoc/parser/jsdoc_parts.rs:           *)
(* the four JSDoc part types (comment, tag kind, tag type, tag type name), *)
(* their constructors and their accessors.                                 *)
(*                                                                         *)
(* A Rust &str is modelled as a sequence of characters; every character    *)
(* has a UTF-8 width (CharLen), and every length, offset and slice index   *)
(* of the source is a BYTE count, computed here from those widths.         *)
(* KANA stands for a three-byte, non-whitespace character (the tests use   *)
(* such characters in tag kinds and names).                                *)
(*                                                                         *)
(* A u32 is written as the integer it denotes; the only u32 operation that *)
(* can leave the range here is the subtraction of line 78, whose wrapped   *)
(* result 2^32 + (a - b) is written as the negative number a - b (its      *)
(* two's-complement reading), flagged by SubU32(a, b).overflow.            *)
(***************************************************************************)
EXTENDS Integers, Sequences, FiniteSets, TLC

VARIABLES build, part, status, op, ret

vars == <<build, part, status, op, ret>>

---------------------------------------------------------------------------
(* Bounds of the model.                                                    *)

MaxCommentLen == 4
MaxKindLen == 3
MaxTypeLen == 5
MaxNameLen == 5
SpanBase == 7
SpanSlack == 1

---------------------------------------------------------------------------
(* Characters and strings.                                                 *)

SP == " "
NL == "\n"
KANA == "U+3042"

CommentChars == {SP, NL, "*", "a", KANA}
KindChars == {"@", SP, "a", KANA}
TypeChars == {"{", "}", SP, "a", KANA}
NameChars == {"[", "]", "=", SP, "a"}

Strings(chars, n) == UNION {[1..k -> chars] : k \in 0..n}

CharLen(c) == IF c = KANA THEN 3 ELSE 1

IsWhitespace(c) == c \in {SP, NL, "\r", "\t"}

RECURSIVE ByteLen(_)
ByteLen(s) == IF s = <<>> THEN 0 ELSE CharLen(Head(s)) + ByteLen(Tail(s))

Prefix(s, k) == SubSeq(s, 1, k)
Suffix(s, k) == SubSeq(s, k + 1, Len(s))

(* str::is_char_boundary: 0, len, and the start of every character *)
IsCharBoundary(s, i) == \E k \in 0..Len(s) : ByteLen(Prefix(s, k)) = i

(* &s[from..to]: panics unless from <= to <= len and both are boundaries *)
Slice(s, from, to) ==
    IF from <= to /\ to <= ByteLen(s)
       /\ IsCharBoundary(s, from) /\ IsCharBoundary(s, to)
    THEN LET i == CHOOSE k \in 0..Len(s) : ByteLen(Prefix(s, k)) = from
             j == CHOOSE k \in 0..Len(s) : ByteLen(Prefix(s, k)) = to
         IN [ok |-> TRUE, val |-> SubSeq(s, i + 1, j)]
    ELSE [ok |-> FALSE, val |-> <<>>]

RECURSIVE TrimStart(_)
TrimStart(s) ==
    IF s # <<>> /\ IsWhitespace(Head(s)) THEN TrimStart(Tail(s)) ELSE s

RECURSIVE TrimEnd(_)
TrimEnd(s) ==
    IF s # <<>> /\ IsWhitespace(s[Len(s)])
    THEN TrimEnd(Prefix(s, Len(s) - 1)) ELSE s

Trim(s) == TrimEnd(TrimStart(s))

StartsWith(s, c) == s # <<>> /\ Head(s) = c
EndsWith(s, c) == s # <<>> /\ s[Len(s)] = c
Contains(s, c) == \E i \in 1..Len(s) : s[i] = c

(* position (1-based, in characters) of the first c in s, 0 when absent *)
FirstIndex(s, c) ==
    IF Contains(s, c)
    THEN CHOOSE i \in 1..Len(s) : s[i] = c /\ \A j \in 1..(i - 1) : s[j] # c
    ELSE 0

(* str::find(c): Some(byte offset of the first c) or None *)
Find(s, c) ==
    IF Contains(s, c)
    THEN [some |-> TRUE, val |-> ByteLen(Prefix(s, FirstIndex(s, c) - 1))]
    ELSE [some |-> FALSE, val |-> 0]

(* str::strip_prefix(c): Some(rest) when s starts with c, else None *)
StripPrefix(s, c) ==
    IF StartsWith(s, c) THEN [some |-> TRUE, val |-> Tail(s)]
    ELSE [some |-> FALSE, val |-> <<>>]

RECURSIVE TrimStartMatches(_, _)
TrimStartMatches(s, c) ==
    IF StartsWith(s, c) THEN TrimStartMatches(Tail(s), c) ELSE s

RECURSIVE TrimEndMatches(_, _)
TrimEndMatches(s, c) ==
    IF EndsWith(s, c) THEN TrimEndMatches(Prefix(s, Len(s) - 1), c) ELSE s

(* str::split_once(c): Some((before, after)) at the first c, else None *)
SplitOnce(s, c) ==
    IF Contains(s, c)
    THEN [some |-> TRUE, left |-> Prefix(s, FirstIndex(s, c) - 1),
          right |-> Suffix(s, FirstIndex(s, c))]
    ELSE [some |-> FALSE, left |-> <<>>, right |-> <<>>]

(* one line of str::lines(): the terminator is "\n" or "\r\n" *)
StripCR(line) == IF EndsWith(line, "\r") THEN Prefix(line, Len(line) - 1) ELSE line

(* str::lines(): split after every "\n"; no empty line after a final "\n" *)
RECURSIVE Lines(_)
Lines(s) ==
    IF s = <<>> THEN <<>>
    ELSE LET i == FirstIndex(s, NL)
         IN IF i = 0 THEN <<s>>
            ELSE <<StripCR(Prefix(s, i - 1))>> \o Lines(Suffix(s, i))

(* [&str]::join("\n") *)
RECURSIVE JoinNL(_)
JoinNL(ls) ==
    IF ls = <<>> THEN <<>>
    ELSE IF Len(ls) = 1 THEN ls[1]
    ELSE ls[1] \o <<NL>> \o JoinNL(Tail(ls))

(* u32 subtraction; overflow panics in a debug build and wraps in release *)
SubU32(a, b) == [overflow |-> a < b, val |-> a - b]

---------------------------------------------------------------------------
(* Values.                                                                 *)

NoSpan == [start |-> 0, end |-> 0]

NoPart == [type |-> "none", raw |-> <<>>, span |-> NoSpan,
           optional |-> FALSE, default |-> FALSE]

NoRet == [kind |-> "none", str |-> <<>>, span |-> NoSpan]
PanicRet == [kind |-> "panic", str |-> <<>>, span |-> NoSpan]
StrRet(s) == [kind |-> "str", str |-> s, span |-> NoSpan]
SpanRet(s, e) == [kind |-> "span", str |-> <<>>, span |-> [start |-> s, end |-> e]]

(* debug_assert!(cond): checked in a debug build only *)
DebugAssert(b, cond) == b = "release" \/ cond

---------------------------------------------------------------------------
(* JSDocCommentPart                                                        *)

JSDocCommentPart_new(part_content, span) ==
    [type |-> "comment", raw |-> part_content, span |-> span,
     optional |-> FALSE, default |-> FALSE]

(* variant: the empty span is placed at the end *)
EmptySpanAtStart_AtEnd(self) == SpanRet(self.span.end, self.span.end)

(* lines 67-69: Span::empty(self.span.start) *)
EmptySpanAtStart(self) == SpanRet(self.span.start, self.span.start)

(* variant: the end is not narrowed *)
SingleLineSpan_EndNotNarrowed(self, b) ==
    LET base_len == ByteLen(self.raw)
        trimmed_start_offset == base_len - ByteLen(TrimStart(self.raw))
    IN SpanRet(self.span.start + trimmed_start_offset, self.span.end)

(* lines 71-79: the raw has one line: both ends are narrowed.              *)
(* u32::try_from(offset).unwrap_or_default() is 0 for an offset above      *)
(* u32::MAX and the offset itself otherwise; every offset here is a few    *)
(* bytes, so it is the offset.                                             *)
SingleLineSpan(self, b) ==
    LET base_len == ByteLen(self.raw)
        trimmed_start_offset == base_len - ByteLen(TrimStart(self.raw))
        trimmed_end_offset == base_len - ByteLen(TrimEnd(self.raw))
        end == SubU32(self.span.end, trimmed_end_offset)
    IN IF end.overflow /\ b = "debug" THEN PanicRet
       ELSE SpanRet(self.span.start + trimmed_start_offset, end.val)

(* variant: the end offset is not added to the start offset *)
FirstLineSpan_EndFromZero(self) ==
    LET base_len == ByteLen(self.raw)
        start_trimmed == TrimStart(self.raw)
        trimmed_start_offset == base_len - ByteLen(start_trimmed)
        found == Find(start_trimmed, NL)
        trimmed_end_offset == IF found.some THEN found.val ELSE 0
    IN SpanRet(self.span.start + trimmed_start_offset,
               self.span.start + trimmed_end_offset)

(* lines 82-88: several lines: from the first visible byte to the first    *)
(* "\n" after it                                                           *)
FirstLineSpan(self) ==
    LET base_len == ByteLen(self.raw)
        start_trimmed == TrimStart(self.raw)
        trimmed_start_offset == base_len - ByteLen(start_trimmed)
        found == Find(start_trimmed, NL)
        trimmed_end_offset ==
            trimmed_start_offset + (IF found.some THEN found.val ELSE 0)
    IN SpanRet(self.span.start + trimmed_start_offset,
               self.span.start + trimmed_end_offset)

JSDocCommentPart_span_trimmed_first_line(self, b) ==
    IF Trim(self.raw) = <<>> THEN EmptySpanAtStart(self)
    ELSE IF Len(Lines(self.raw)) = 1 THEN SingleLineSpan(self, b)
    ELSE FirstLineSpan(self)

(* line 101: line.trim().strip_prefix('*').unwrap_or(line).trim() *)
StripLine(line) ==
    LET stripped == StripPrefix(Trim(line), "*")
    IN Trim(IF stripped.some THEN stripped.val ELSE line)

(* lines 98-104: every line stripped, the empty ones dropped, the rest joined *)
ParsedLines(raw) ==
    JoinNL(SelectSeq([i \in 1..Len(Lines(raw)) |-> StripLine(Lines(raw)[i])],
                     LAMBDA line : line # <<>>))

(* variant: the single-line case is not told apart *)
Parsed_AlwaysStrips(self) == ParsedLines(self.raw)

JSDocCommentPart_parsed(self) ==
    IF Len(Lines(self.raw)) = 1 THEN Trim(self.raw)
    ELSE ParsedLines(self.raw)

---------------------------------------------------------------------------
(* JSDocTagKindPart                                                        *)

(* variant: assert! in place of debug_assert! *)
KindNew_AssertAlways(part_content, span, b) ==
    IF StartsWith(part_content, "@") /\ Trim(part_content) = part_content
    THEN [ok |-> TRUE,
          val |-> [type |-> "kind", raw |-> part_content, span |-> span,
                   optional |-> FALSE, default |-> FALSE]]
    ELSE [ok |-> FALSE, val |-> NoPart]

JSDocTagKindPart_new(part_content, span, b) ==
    IF DebugAssert(b, StartsWith(part_content, "@"))
       /\ DebugAssert(b, Trim(part_content) = part_content)
    THEN [ok |-> TRUE,
          val |-> [type |-> "kind", raw |-> part_content, span |-> span,
                   optional |-> FALSE, default |-> FALSE]]
    ELSE [ok |-> FALSE, val |-> NoPart]

JSDocTagKindPart_parsed(self) ==
    LET s == Slice(self.raw, 1, ByteLen(self.raw))
    IN IF s.ok THEN StrRet(s.val) ELSE PanicRet

---------------------------------------------------------------------------
(* JSDocTagTypePart                                                        *)

JSDocTagTypePart_new(part_content, span, b) ==
    IF DebugAssert(b, StartsWith(part_content, "{"))
       /\ DebugAssert(b, EndsWith(part_content, "}"))
    THEN [ok |-> TRUE,
          val |-> [type |-> "type", raw |-> part_content, span |-> span,
                   optional |-> FALSE, default |-> FALSE]]
    ELSE [ok |-> FALSE, val |-> NoPart]

(* variant: every leading "{" and trailing "}" is removed *)
TypeParsed_StripsAllBraces(self) ==
    StrRet(Trim(TrimEndMatches(TrimStartMatches(self.raw, "{"), "}")))

(* self.raw.len() - 1 on an empty raw overflows usize: a panic in a debug  *)
(* build, usize::MAX in release, where the slice then panics (1 > MAX is   *)
(* false but MAX > len).                                                   *)
JSDocTagTypePart_parsed(self) ==
    IF ByteLen(self.raw) = 0 THEN PanicRet
    ELSE LET s == Slice(self.raw, 1, ByteLen(self.raw) - 1)
         IN IF s.ok THEN StrRet(Trim(s.val)) ELSE PanicRet

---------------------------------------------------------------------------
(* JSDocTagTypeNamePart                                                    *)

(* variant: default does not require optional *)
TypeNameNew_DefaultWithoutOptional(part_content, span, b) ==
    IF DebugAssert(b, Trim(part_content) = part_content)
    THEN LET optional == StartsWith(part_content, "[") /\ EndsWith(part_content, "]")
             default == Contains(part_content, "=")
         IN [ok |-> TRUE,
             val |-> [type |-> "type_name", raw |-> part_content, span |-> span,
                      optional |-> optional, default |-> default]]
    ELSE [ok |-> FALSE, val |-> NoPart]

JSDocTagTypeNamePart_new(part_content, span, b) ==
    IF DebugAssert(b, Trim(part_content) = part_content)
    THEN LET optional == StartsWith(part_content, "[") /\ EndsWith(part_content, "]")
             default == optional /\ Contains(part_content, "=")
         IN [ok |-> TRUE,
             val |-> [type |-> "type_name", raw |-> part_content, span |-> span,
                      optional |-> optional, default |-> default]]
    ELSE [ok |-> FALSE, val |-> NoPart]

JSDocTagTypeNamePart_parsed(self) ==
    IF self.optional
    THEN LET inner == Trim(TrimEndMatches(TrimStartMatches(self.raw, "["), "]"))
             split == SplitOnce(inner, "=")
         IN IF split.some THEN Trim(split.left) ELSE inner
    ELSE self.raw

---------------------------------------------------------------------------
(* The callers: a part is built from a substring and a span, then read.    *)
(* The parts are independent values, so a run follows one part from its    *)
(* construction through the calls of its accessors.                        *)

SpanStarts == {0, SpanBase}

(* the span of a substring of n bytes; an unrelated length is possible too, *)
(* since no constructor compares the span with the substring               *)
SpansOf(n) == {[start |-> s, end |-> s + k] : s \in SpanStarts, k \in {0, n, n + SpanSlack}}
ExactSpansOf(n) == {[start |-> s, end |-> s + n] : s \in SpanStarts}

Init ==
    /\ build \in {"debug", "release"}
    /\ part = NoPart
    /\ status = "running"
    /\ op = "init"
    /\ ret = NoRet

Built(new, name) ==
    /\ build' = build
    /\ op' = name
    /\ ret' = NoRet
    /\ part' = new.val
    /\ status' = IF new.ok THEN "running" ELSE "panicked"

Returned(r, name) ==
    /\ build' = build
    /\ part' = part
    /\ op' = name
    /\ ret' = r
    /\ status' = IF r.kind = "panic" THEN "panicked" ELSE "running"

NewCommentPart ==
    /\ status = "running"
    /\ part.type = "none"
    /\ \E part_content \in Strings(CommentChars, MaxCommentLen) :
         \E span \in SpansOf(ByteLen(part_content)) :
            Built([ok |-> TRUE, val |-> JSDocCommentPart_new(part_content, span)],
                  "comment_new")

CommentSpanTrimmedFirstLine ==
    /\ status = "running"
    /\ part.type = "comment"
    /\ Returned(JSDocCommentPart_span_trimmed_first_line(part, build),
                "span_trimmed_first_line")

CommentParsed ==
    /\ status = "running"
    /\ part.type = "comment"
    /\ Returned(StrRet(JSDocCommentPart_parsed(part)), "comment_parsed")

NewTagKindPart ==
    /\ status = "running"
    /\ part.type = "none"
    /\ \E part_content \in Strings(KindChars, MaxKindLen) :
         \E span \in ExactSpansOf(ByteLen(part_content)) :
            Built(JSDocTagKindPart_new(part_content, span, build), "kind_new")

TagKindParsed ==
    /\ status = "running"
    /\ part.type = "kind"
    /\ Returned(JSDocTagKindPart_parsed(part), "kind_parsed")

NewTagTypePart ==
    /\ status = "running"
    /\ part.type = "none"
    /\ \E part_content \in Strings(TypeChars, MaxTypeLen) :
         \E span \in ExactSpansOf(ByteLen(part_content)) :
            Built(JSDocTagTypePart_new(part_content, span, build), "type_new")

TagTypeParsed ==
    /\ status = "running"
    /\ part.type = "type"
    /\ Returned(JSDocTagTypePart_parsed(part), "type_parsed")

NewTagTypeNamePart ==
    /\ status = "running"
    /\ part.type = "none"
    /\ \E part_content \in Strings(NameChars, MaxNameLen) :
         \E span \in ExactSpansOf(ByteLen(part_content)) :
            Built(JSDocTagTypeNamePart_new(part_content, span, build), "type_name_new")

TagTypeNameParsed ==
    /\ status = "running"
    /\ part.type = "type_name"
    /\ Returned(StrRet(JSDocTagTypeNamePart_parsed(part)), "type_name_parsed")

Next ==
    \/ NewCommentPart
    \/ CommentSpanTrimmedFirstLine
    \/ CommentParsed
    \/ NewTagKindPart
    \/ TagKindParsed
    \/ NewTagTypePart
    \/ TagTypeParsed
    \/ NewTagTypeNamePart
    \/ TagTypeNameParsed

Spec == Init /\ [][Next]_vars

---------------------------------------------------------------------------
(* Reference definitions the properties are stated with.  They work on     *)
(* characters and positions and use none of the operators above except the *)
(* character classes and ByteLen.                                          *)

Visible(s) == {i \in 1..Len(s) : ~IsWhitespace(s[i])}
AllWhitespace(s) == Visible(s) = {}
FirstVisible(s) == CHOOSE i \in Visible(s) : \A j \in Visible(s) : i <= j
LastVisible(s) == CHOOSE i \in Visible(s) : \A j \in Visible(s) : j <= i

(* s without its leading and trailing whitespace *)
RefTrim(s) ==
    IF AllWhitespace(s) THEN <<>> ELSE SubSeq(s, FirstVisible(s), LastVisible(s))

HasLineBreak(s) == \E i \in 1..Len(s) : s[i] = NL

(* the bytes of s before position i, and from position i + 1 on *)
BytesBefore(s, i) == ByteLen(SubSeq(s, 1, i - 1))
BytesAfter(s, i) == ByteLen(SubSeq(s, i + 1, Len(s)))

(* the pieces of s between its line breaks, all of them *)
RECURSIVE RefSplit(_)
RefSplit(s) ==
    IF ~HasLineBreak(s) THEN <<s>>
    ELSE LET i == CHOOSE k \in 1..Len(s) :
                      s[k] = NL /\ \A j \in 1..(k - 1) : s[j] # NL
         IN <<SubSeq(s, 1, i - 1)>> \o RefSplit(SubSeq(s, i + 1, Len(s)))

RefStripOneStar(s) == IF s # <<>> /\ s[1] = "*" THEN SubSeq(s, 2, Len(s)) ELSE s

RefLine(line) == RefTrim(RefStripOneStar(RefTrim(line)))

RECURSIVE RefJoin(_)
RefJoin(ls) ==
    IF ls = <<>> THEN <<>>
    ELSE IF Len(ls) = 1 THEN ls[1]
    ELSE ls[1] \o <<NL>> \o RefJoin(Tail(ls))

RECURSIVE RefKeepNonEmpty(_)
RefKeepNonEmpty(ls) ==
    IF ls = <<>> THEN <<>>
    ELSE IF RefLine(ls[1]) = <<>> THEN RefKeepNonEmpty(Tail(ls))
    ELSE <<RefLine(ls[1])>> \o RefKeepNonEmpty(Tail(ls))

RefNormalize(s) == RefJoin(RefKeepNonEmpty(RefSplit(s)))

(* positions of the line breaks after the first visible character *)
BreaksAfterFirstVisible(s) == {j \in 1..Len(s) : j > FirstVisible(s) /\ s[j] = NL}

(* byte offset where the first visible line ends *)
FirstVisibleLineEnd(s) ==
    IF BreaksAfterFirstVisible(s) = {} THEN ByteLen(s)
    ELSE BytesBefore(s, CHOOSE j \in BreaksAfterFirstVisible(s) :
                            \A k \in BreaksAfterFirstVisible(s) : j <= k)

BracketDelimited(s) == Len(s) >= 1 /\ s[1] = "[" /\ s[Len(s)] = "]"

RefBeforeFirstEq(s) ==
    LET i == CHOOSE k \in 1..Len(s) : s[k] = "=" /\ \A j \in 1..(k - 1) : s[j] # "="
    IN SubSeq(s, 1, i - 1)

RefTypeName(s) ==
    IF ~BracketDelimited(s) THEN s
    ELSE LET inner == RefTrim(SubSeq(s, 2, Len(s) - 1))
         IN IF \E i \in 1..Len(inner) : inner[i] = "="
            THEN RefTrim(RefBeforeFirstEq(inner))
            ELSE inner

SpanMatchesRaw == part.span.end - part.span.start = ByteLen(part.raw)

---------------------------------------------------------------------------
(* Properties.                                                             *)

(* C1: JSDocCommentPart::parsed() of a raw that contains a line break is   *)
(* the reference normalization: split on line breaks, trim each line,      *)
(* strip one leading "*", trim again, drop the empty lines, join with "\n". *)
C1_MultiLineIsNormalized ==
    (op = "comment_parsed" /\ HasLineBreak(part.raw))
        => (ret.kind = "str" /\ ret.str = RefNormalize(part.raw))

(* C2: JSDocCommentPart::parsed() of a raw without a line break is the raw *)
(* trimmed of leading and trailing whitespace; no "*" is stripped.         *)
C2_SingleLineIsTrimmed ==
    (op = "comment_parsed" /\ ~HasLineBreak(part.raw))
        => (ret.kind = "str" /\ ret.str = RefTrim(part.raw))

C2_Witness ==
    /\ op = "comment_parsed"
    /\ part.raw = <<SP, "*", SP>>
    /\ ret.str = <<"*">>

(* C3: span_trimmed_first_line() of a raw with a line break that is not    *)
(* all whitespace, under a span of the raw's length, starts after the      *)
(* leading whitespace and ends at the first line break after the first     *)
(* visible character (at the end of the raw when there is none); it is not *)
(* empty.                                                                  *)
C3_FirstVisibleLine ==
    (/\ op = "span_trimmed_first_line"
     /\ HasLineBreak(part.raw)
     /\ ~AllWhitespace(part.raw)
     /\ SpanMatchesRaw)
        => /\ ret.kind = "span"
           /\ ret.span.start = part.span.start + BytesBefore(part.raw, FirstVisible(part.raw))
           /\ ret.span.end = part.span.start + FirstVisibleLineEnd(part.raw)
           /\ ret.span.start < ret.span.end

(* C4: span_trimmed_first_line() of a raw without a line break that is not *)
(* all whitespace, under a span [s, e) of the raw's length, is             *)
(* [s + L, e - T], L and T the leading and trailing whitespace bytes.      *)
C4_SingleLineSpanIsTrimmed ==
    (/\ op = "span_trimmed_first_line"
     /\ ~HasLineBreak(part.raw)
     /\ ~AllWhitespace(part.raw)
     /\ SpanMatchesRaw)
        => /\ ret.kind = "span"
           /\ ret.span.start = part.span.start + BytesBefore(part.raw, FirstVisible(part.raw))
           /\ ret.span.end = part.span.end - BytesAfter(part.raw, LastVisible(part.raw))
           /\ ret.span.end - ret.span.start = ByteLen(RefTrim(part.raw))

C4_Witness ==
    /\ op = "span_trimmed_first_line"
    /\ part.raw = <<SP, KANA, SP, SP>>
    /\ part.span = [start |-> SpanBase, end |-> SpanBase + 6]
    /\ ret.span = [start |-> SpanBase + 1, end |-> SpanBase + 4]

(* C5: span_trimmed_first_line() of an empty or all-whitespace raw is the  *)
(* empty span at the original start, whatever the original end.            *)
C5_WhitespaceGivesEmptySpan ==
    (op = "span_trimmed_first_line" /\ AllWhitespace(part.raw))
        => /\ ret.kind = "span"
           /\ ret.span.start = part.span.start
           /\ ret.span.end = part.span.start

C5_Witness ==
    /\ op = "span_trimmed_first_line"
    /\ part.raw = <<NL, SP, NL>>
    /\ part.span.start = SpanBase
    /\ part.span.end # SpanBase + 3
    /\ part.span.end # SpanBase
    /\ ret.span = [start |-> SpanBase, end |-> SpanBase]

(* C6: JSDocTagTypeNamePart::parsed() of a trimmed raw is the raw when it  *)
(* is not bracket-delimited; otherwise one "[" and one "]" are removed,    *)
(* the rest is trimmed, and what is left of the first "=" (trimmed) is     *)
(* returned when there is one.                                             *)
C6_TypeNameStripsOnePair ==
    (op = "type_name_parsed" /\ RefTrim(part.raw) = part.raw)
        => (ret.kind = "str" /\ ret.str = RefTypeName(part.raw))

C8_TypeStripsOnePair ==
    (/\ op = "type_parsed"
     /\ Len(part.raw) >= 1
     /\ part.raw[1] = "{"
     /\ part.raw[Len(part.raw)] = "}")
        => /\ ByteLen(part.raw) >= 2
           /\ ret.kind = "str"
           /\ ret.str = RefTrim(SubSeq(part.raw, 2, Len(part.raw) - 1))

C8_Witness ==
    /\ op = "type_parsed"
    /\ part.raw = <<"{", "{", "a", "}", "}">>
    /\ ret.str = <<"{", "a", "}">>

(* C9 as stated: in a release build, building a kind or type part never    *)
(* fails and parsed() never panics, whatever the raw.                      *)
C9_ReleaseNeverPanics ==
    (build = "release" /\ op \in {"kind_new", "kind_parsed", "type_new", "type_parsed"})
        => status = "running"

KindSliceable(s) == Len(s) >= 1 /\ CharLen(s[1]) = 1
TypeSliceable(s) == Len(s) >= 2 /\ CharLen(s[1]) = 1 /\ CharLen(s[Len(s)]) = 1

(* C9 amended: in a release build, building a kind or type part never      *)
(* fails; parsed() returns a string when the bytes it slices at are        *)
(* character boundaries inside the raw (kind: a first character of one     *)
(* byte; type: at least two characters, the first and the last of one      *)
(* byte), and panics otherwise.                                            *)
C9_ReleasePanicsOnlyOnBadSlice ==
    build = "release"
        => /\ op \in {"kind_new", "type_new"} => status = "running"
           /\ op = "kind_parsed"
                  => /\ (status = "running") = KindSliceable(part.raw)
                     /\ (ret.kind = "str") = KindSliceable(part.raw)
           /\ op = "type_parsed"
                  => /\ (status = "running") = TypeSliceable(part.raw)
                     /\ (ret.kind = "str") = TypeSliceable(part.raw)

C9_Witness ==
    /\ build = "release"
    /\ op = "kind_parsed"
    /\ part.raw = <<"a", SP>>
    /\ status = "running"
    /\ ret.str = <<SP>>

(* C10: under a span [s, e) of the raw's length, span_trimmed_first_line() *)
(* returns [s', e') with s <= s' <= e' <= e, and no offset arithmetic      *)
(* overflows.                                                              *)
C10_SpanStaysInside ==
    (op = "span_trimmed_first_line" /\ SpanMatchesRaw)
        => /\ status = "running"
           /\ ret.kind = "span"
           /\ part.span.start <= ret.span.start
           /\ ret.span.start <= ret.span.end
           /\ ret.span.end <= part.span.end

C10_Witness ==
    /\ op = "span_trimmed_first_line"
    /\ part.raw = <<NL, SP, "a", NL>>
    /\ part.span = [start |-> SpanBase, end |-> SpanBase + 4]
    /\ ret.span = [start |-> SpanBase + 2, end |-> SpanBase + 3]

===========================================================================
